---- MODULE Spec2Model ----
(***************************************************************************)
(* Model of tools/dfu.py: the DfuSe flashing tool.                         *)
(*                                                                         *)
(* Strings are sequences of one-character strings, so that split(),       *)
(* slicing and int() are computed character by character as Python does.  *)
(* The IntelHex image is a function from addresses to bytes.               *)
(***************************************************************************)
EXTENDS Integers, Sequences, FiniteSets, TLC

(***************************************************************************)
(* Python string primitives used by load_sectors                           *)
(***************************************************************************)

\* str.split(sep) for a one-character separator: always at least one field,
\* empty fields are kept.
RECURSIVE SplitFrom(_, _, _, _)
SplitFrom(s, sep, i, cur) ==
    IF i > Len(s) THEN <<cur>>
    ELSE IF s[i] = sep THEN <<cur>> \o SplitFrom(s, sep, i + 1, <<>>)
    ELSE SplitFrom(s, sep, i + 1, Append(cur, s[i]))

Split(s, sep) == SplitFrom(s, sep, 1, <<>>)

\* s[:-2]
DropLast2(s) == IF Len(s) <= 2 THEN <<>> ELSE SubSeq(s, 1, Len(s) - 2)

\* str.upper() on one character (the letters the model's alphabet holds)
Upper(c) ==
    CASE c = "k" -> "K"
      [] c = "m" -> "M"
      [] c = "g" -> "G"
      [] c = "a" -> "A"
      [] c = "b" -> "B"
      [] c = "x" -> "X"
      [] OTHER -> c

\* str.strip() of blanks, as int() does before parsing
RECURSIVE LStrip(_)
LStrip(s) == IF s # <<>> /\ Head(s) = " " THEN LStrip(Tail(s)) ELSE s

RECURSIVE RStrip(_)
RStrip(s) ==
    IF s # <<>> /\ s[Len(s)] = " " THEN RStrip(SubSeq(s, 1, Len(s) - 1)) ELSE s

Strip(s) == RStrip(LStrip(s))

\* value of a digit character in the given base, -1 when it is no digit of it
DigitVal(c, base) ==
    LET v == CASE c = "0" -> 0 [] c = "1" -> 1 [] c = "2" -> 2 [] c = "3" -> 3
               [] c = "4" -> 4 [] c = "5" -> 5 [] c = "6" -> 6 [] c = "7" -> 7
               [] c = "8" -> 8 [] c = "9" -> 9
               [] c \in {"a", "A"} -> 10 [] c \in {"b", "B"} -> 11
               [] c \in {"c", "C"} -> 12 [] c \in {"d", "D"} -> 13
               [] c \in {"e", "E"} -> 14 [] c \in {"f", "F"} -> 15
               [] OTHER -> -1
    IN  IF v < base THEN v ELSE -1

\* the digits of an integer literal: non-empty, every character a digit of the
\* base or a single "_" between two digits
DigitsOk(d, base) ==
    /\ d # <<>>
    /\ \A i \in 1..Len(d) :
          \/ DigitVal(d[i], base) >= 0
          \/ /\ d[i] = "_"
             /\ i > 1 /\ i < Len(d)
             /\ DigitVal(d[i - 1], base) >= 0
             /\ DigitVal(d[i + 1], base) >= 0

RECURSIVE DigitsValue(_, _, _)
DigitsValue(d, base, acc) ==
    IF d = <<>> THEN acc
    ELSE IF Head(d) = "_" THEN DigitsValue(Tail(d), base, acc)
    ELSE DigitsValue(Tail(d), base, acc * base + DigitVal(Head(d), base))

ValueError == [ok |-> FALSE, exc |-> "ValueError"]
KeyError == [ok |-> FALSE, exc |-> "KeyError"]
Ok(v) == [ok |-> TRUE, val |-> v]

\* the sign and the unsigned rest of a stripped literal
SignOf(t) == IF t # <<>> /\ Head(t) = "-" THEN -1 ELSE 1
Unsigned(t) == IF t # <<>> /\ Head(t) \in {"-", "+"} THEN Tail(t) ELSE t

\* int(s): base 10, surrounding blanks and a sign allowed, leading zeros allowed
PyInt(s) ==
    LET t == Strip(s)
        d == Unsigned(t)
    IN  IF DigitsOk(d, 10) THEN Ok(SignOf(t) * DigitsValue(d, 10, 0))
        ELSE ValueError

\* int(s, 0): the base is taken from the prefix 0x, 0o or 0b; a decimal literal
\* must not have a leading zero unless it is all zeros
PyIntBase0(s) ==
    LET t == Strip(s)
        d == Unsigned(t)
        pre == IF Len(d) >= 2 /\ d[1] = "0" THEN d[2] ELSE ""
        base == CASE pre \in {"x", "X"} -> 16
                  [] pre \in {"o", "O"} -> 8
                  [] pre \in {"b", "B"} -> 2
                  [] OTHER -> 10
        body == IF base = 10 THEN d
                ELSE IF Len(d) >= 3 /\ d[3] = "_" THEN SubSeq(d, 4, Len(d))
                ELSE SubSeq(d, 3, Len(d))
        zerosOnly == \A i \in 1..Len(d) : d[i] \in {"0", "_"}
    IN  IF ~DigitsOk(body, base) THEN ValueError
        ELSE IF base = 10 /\ d[1] = "0" /\ ~zerosOnly THEN ValueError
        ELSE Ok(SignOf(t) * DigitsValue(body, base, 0))

(***************************************************************************)
(* Program constants                                                       *)
(***************************************************************************)

\* mutant of SIZE_MULTIPLIERS: decimal multipliers
SizeMultipliersDecimal == [c \in {" ", "K", "M"} |->
                              CASE c = " " -> 1 [] c = "K" -> 1000 [] c = "M" -> 1000000]

\* SIZE_MULTIPLIERS = {' ': 1, 'K': 1024, 'M' : 1024*1024}
SIZE_MULTIPLIERS == [c \in {" ", "K", "M"} |->
                        CASE c = " " -> 1 [] c = "K" -> 1024 [] c = "M" -> 1024 * 1024]

TRANSFER_SIZE == 2048

\* the fill value IntelHex pads unpopulated addresses with
PADDING == 255

(***************************************************************************)
(* IntelHex: the image is a function from populated addresses to bytes     *)
(***************************************************************************)

RECURSIVE SortedSeq(_)
SortedSeq(S) ==
    IF S = {} THEN <<>>
    ELSE LET m == CHOOSE x \in S : \A y \in S : x <= y
         IN  <<m>> \o SortedSeq(S \ {m})

\* hexfile.segments(): the maximal runs of populated addresses, ascending,
\* each as <<start, end>> with end exclusive
Segments(h) ==
    LET D == DOMAIN h
        starts == SortedSeq({a \in D : a - 1 \notin D})
        endOf(s) == CHOOSE e \in D : /\ e >= s
                                     /\ e + 1 \notin D
                                     /\ \A x \in s..e : x \in D
    IN  [i \in 1..Len(starts) |-> <<starts[i], endOf(starts[i]) + 1>>]

\* hexfile.tobinarray(start, end): the bytes of start..end inclusive, padded;
\* a range given backwards is swapped (IntelHex._get_start_end)
Tobinarray(h, start, end) ==
    LET lo == IF start > end THEN end ELSE start
        hi == IF start > end THEN start ELSE end
    IN  [i \in 1..(hi - lo + 1) |->
            IF lo + i - 1 \in DOMAIN h THEN h[lo + i - 1] ELSE PADDING]

(***************************************************************************)
(* load_sectors: parsing one sector spec and expanding one sector group    *)
(***************************************************************************)

\* mutant of ParseSectorSpec: a repeat count or size of zero or less is refused
ParseSectorSpecPositive(sector) ==
    LET parts == Split(DropLast2(sector), "*")
        r == PyInt(parts[1])
        z == PyInt(parts[2])
        unit == Upper(sector[Len(sector) - 1])
    IN  IF Len(parts) # 2 THEN ValueError
        ELSE IF ~r.ok \/ ~z.ok THEN ValueError
        ELSE IF r.val <= 0 \/ z.val <= 0 THEN ValueError
        ELSE IF unit \notin DOMAIN SIZE_MULTIPLIERS THEN KeyError
        ELSE Ok([repeat |-> r.val, size |-> z.val * SIZE_MULTIPLIERS[unit]])

\* repeat, size = map(int, sector[:-2].split('*'))
\* size *= SIZE_MULTIPLIERS[sector[-2].upper()]
ParseSectorSpec(sector) ==
    LET parts == Split(DropLast2(sector), "*")
        r == PyInt(parts[1])
        z == PyInt(parts[2])
        unit == Upper(sector[Len(sector) - 1])
    IN  IF Len(parts) # 2 THEN ValueError
        ELSE IF ~r.ok \/ ~z.ok THEN ValueError
        ELSE IF unit \notin DOMAIN SIZE_MULTIPLIERS THEN KeyError
        ELSE Ok([repeat |-> r.val, size |-> z.val * SIZE_MULTIPLIERS[unit]])

\* mutant of SegmentTouches: the first branch takes a segment that ends at addr
SegmentTouchesEndInclusive(start, end, addr, size) ==
    \/ start < addr /\ end >= addr
    \/ start >= addr /\ start < addr + size

\* mutant of SegmentTouches: the first branch misses a segment that ends one
\* byte after addr
SegmentTouchesLate(start, end, addr, size) ==
    \/ start < addr /\ end > addr + 1
    \/ start >= addr /\ start < addr + size

\* the two-branch test of one segment against the sector at addr
SegmentTouches(start, end, addr, size) ==
    \/ start < addr /\ end > addr
    \/ start >= addr /\ start < addr + size

\* mutant of TouchedFrom: the loop gives up after the first segment
TouchedFromFirstOnly(segs, i, addr, size) ==
    IF i <= Len(segs) /\ SegmentTouches(segs[i][1], segs[i][2], addr, size) THEN i ELSE 0

\* the segment loop: the index of the segment the loop breaks at, 0 when the
\* loop ends with touched = False
RECURSIVE TouchedFrom(_, _, _, _)
TouchedFrom(segs, i, addr, size) ==
    IF i > Len(segs) THEN 0
    ELSE IF SegmentTouches(segs[i][1], segs[i][2], addr, size) THEN i
    ELSE TouchedFrom(segs, i + 1, addr, size)

\* mutant of SectorDict: the slice ends one byte late
SectorDictLong(h, alt, addr, size) ==
    [alt |-> alt, addr |-> addr, data |-> Tobinarray(h, addr, addr + size)]

\* the sector dictionary yielded for a touched sector
SectorDict(h, alt, addr, size) ==
    [alt |-> alt, addr |-> addr, data |-> Tobinarray(h, addr, addr + size - 1)]

\* mutant of WalkGroup: the loop runs while repeat >= 0, once too often
RECURSIVE WalkGroupOnceMore(_, _, _, _, _)
WalkGroupOnceMore(segs, alt, addr, size, repeat) ==
    IF repeat >= 0
    THEN <<[alt |-> alt, addr |-> addr, size |-> size,
            hit |-> TouchedFrom(segs, 1, addr, size)]>>
         \o WalkGroupOnceMore(segs, alt, addr + size, size, repeat - 1)
    ELSE <<>>

\* the while loop over one group: every sector visited, with the segment that
\* touched it (hit) and the address cursor advancing by size each time
RECURSIVE WalkGroup(_, _, _, _, _)
WalkGroup(segs, alt, addr, size, repeat) ==
    IF repeat > 0
    THEN <<[alt |-> alt, addr |-> addr, size |-> size,
            hit |-> TouchedFrom(segs, 1, addr, size)]>>
         \o WalkGroup(segs, alt, addr + size, size, repeat - 1)
    ELSE <<>>

\* mutant of YieldOf: the dictionaries come out last first
RECURSIVE YieldOfReversed(_, _)
YieldOfReversed(h, walk) ==
    IF walk = <<>> THEN <<>>
    ELSE YieldOfReversed(h, Tail(walk))
         \o (IF Head(walk).hit # 0
             THEN <<[alt |-> Head(walk).alt, addr |-> Head(walk).addr,
                     data |-> Tobinarray(h, Head(walk).addr,
                                         Head(walk).addr + Head(walk).size - 1)]>>
             ELSE <<>>)

\* the dictionaries yielded for the visited sectors that were touched
RECURSIVE YieldOf(_, _)
YieldOf(h, walk) ==
    IF walk = <<>> THEN <<>>
    ELSE (IF Head(walk).hit # 0
          THEN <<SectorDict(h, Head(walk).alt, Head(walk).addr, Head(walk).size)>>
          ELSE <<>>) \o YieldOf(h, Tail(walk))

\* mutant of CursorAfter: the cursor advances once per group
CursorAfterOnce(addr, size, repeat) == IF repeat > 0 THEN addr + size ELSE addr

\* the address cursor after the while loop
CursorAfter(addr, size, repeat) == IF repeat > 0 THEN addr + repeat * size ELSE addr

(***************************************************************************)
(* Inputs: the descriptor strings the device reports and the images        *)
(***************************************************************************)

\* '@Flash/0x08000000/04*016Kg,01*064Kg': the layout of end-to-end scenario 1
DescScenario1 ==
    <<"@", "F", "l", "a", "s", "h", "/", "0", "x", "0", "8", "0", "0", "0",
      "0", "0", "0", "/", "0", "4", "*", "0", "1", "6", "K", "g", ",", "0",
      "1", "*", "0", "6", "4", "K", "g">>

\* '@A/0x10/02*002 g,01*003 g': sectors [16,18) [18,20) [20,23)
DescSmallA ==
    <<"@", "A", "/", "0", "x", "1", "0", "/", "0", "2", "*", "0", "0", "2",
      " ", "g", ",", "0", "1", "*", "0", "0", "3", " ", "g">>

\* '@B/17/02*002 b': sectors [17,19) [19,21)
DescSmallB ==
    <<"@", "B", "/", "1", "7", "/", "0", "2", "*", "0", "0", "2", " ", "b">>

\* '@C/0x0/01*2049 g,01*002kg': sectors of 2049 and 2048 bytes: two blocks and one block
DescBlocks ==
    <<"@", "C", "/", "0", "x", "0", "/", "0", "1", "*", "2", "0", "4", "9",
      " ", "g", ",", "0", "1", "*", "0", "0", "2", "k", "g">>

\* '@G/0x0/01*001Mg,01*002 g': a sector of 1 MiB and a sector of 2 bytes after it
DescMega ==
    <<"@", "G", "/", "0", "x", "0", "/", "0", "1", "*", "0", "0", "1", "M",
      "g", ",", "0", "1", "*", "0", "0", "2", " ", "g">>

\* '@Z/0x10/01*002 g,02*000 g,01*002 g': a group of size 0, accepted by int()
DescZeroSize ==
    <<"@", "Z", "/", "0", "x", "1", "0", "/", "0", "1", "*", "0", "0", "2",
      " ", "g", ",", "0", "2", "*", "0", "0", "0", " ", "g", ",", "0", "1",
      "*", "0", "0", "2", " ", "g">>

\* '@N/0x10/02*002 g,01*-02 g,01*004 g': a group of negative size, accepted by int()
DescNegSize ==
    <<"@", "N", "/", "0", "x", "1", "0", "/", "0", "2", "*", "0", "0", "2",
      " ", "g", ",", "0", "1", "*", "-", "0", "2", " ", "g", ",", "0", "1",
      "*", "0", "0", "4", " ", "g">>

\* '@R/0x10/00*002 g,-1*002 g,01*004 g': groups of repeat count 0 and -1, accepted by int()
DescZeroRepeat ==
    <<"@", "R", "/", "0", "x", "1", "0", "/", "0", "0", "*", "0", "0", "2",
      " ", "g", ",", "-", "1", "*", "0", "0", "2", " ", "g", ",", "0", "1",
      "*", "0", "0", "4", " ", "g">>

\* '@M/-0x2/01*018 g,01*004 g': a negative base address, accepted by int(addr, 0)
DescNegAddr ==
    <<"@", "M", "/", "-", "0", "x", "2", "/", "0", "1", "*", "0", "1", "8",
      " ", "g", ",", "0", "1", "*", "0", "0", "4", " ", "g">>

\* '@E/0x10': two fields
DescTwoFields ==
    <<"@", "E", "/", "0", "x", "1", "0">>

\* '@E/0x10/01*004 g/x': four fields
DescFourFields ==
    <<"@", "E", "/", "0", "x", "1", "0", "/", "0", "1", "*", "0", "0", "4",
      " ", "g", "/", "x">>

\* '@E/010/01*004 g': a decimal address with a leading zero, refused by int(addr, 0)
DescBadAddr ==
    <<"@", "E", "/", "0", "1", "0", "/", "0", "1", "*", "0", "0", "4", " ",
      "g">>

\* '@E/0x10/01*004Xg': an unknown unit character
DescBadUnit ==
    <<"@", "E", "/", "0", "x", "1", "0", "/", "0", "1", "*", "0", "0", "4",
      "X", "g">>

\* '@E/0x10/01*004 g,1x*004 g': a malformed second group after a well-formed first
DescBadSecond ==
    <<"@", "E", "/", "0", "x", "1", "0", "/", "0", "1", "*", "0", "0", "4",
      " ", "g", ",", "1", "x", "*", "0", "0", "4", " ", "g">>

\* '@E/0x10/004 g': a sector spec without '*'
DescNoStar ==
    <<"@", "E", "/", "0", "x", "1", "0", "/", "0", "0", "4", " ", "g">>

\* bytes of the test images: a pattern that differs between neighbouring
\* addresses and never equals the padding value
ImageByte(a) == (a * 7 + 1) % 255

ImageOn(S) == [a \in S |-> ImageByte(a)]

\* the small images populate any subset of the window 15 .. 14 + HexSpan, which
\* reaches from below the small layouts' base (16) to past their last sector
HexSpan == 9
HexWindow == 15..(14 + HexSpan)

\* scenario 1: one segment [0x08004000, 0x08004100)
Scenario1Image == ImageOn(134234112..134234367)

\* an image for DescBlocks: one segment [2040, 2060) over the sector boundary
BlocksImage == ImageOn(2040..2059)

\* an image for DescMega: one byte at 0x100000, the first of the 2-byte sector
MegaImage == ImageOn({1048576})

Alternate(name, alt) == [name |-> name, alt |-> alt]

\* the lists dfudev.alternates() returns for the small layouts
SmallAlternates ==
    {<<Alternate(d, 0)>> : d \in {DescSmallA, DescSmallB, DescZeroSize, DescNegSize,
                                 DescZeroRepeat, DescNegAddr, DescTwoFields,
                                 DescFourFields, DescBadAddr, DescBadUnit,
                                 DescBadSecond, DescNoStar}}
    \cup {<<Alternate(DescSmallA, 0), Alternate(DescSmallB, 1)>>,
          <<Alternate(DescSmallB, 1), Alternate(DescSmallA, 0)>>,
          <<Alternate(DescSmallA, 0), Alternate(DescBadSecond, 1)>>}

Input(alts, h) == [alts |-> alts, hex |-> h]

PlanInputs ==
    {Input(l, ImageOn(S)) : l \in SmallAlternates, S \in SUBSET HexWindow}
    \cup {Input(<<Alternate(DescScenario1, 0)>>, Scenario1Image),
          Input(<<Alternate(DescBlocks, 0)>>, BlocksImage),
          Input(<<Alternate(DescMega, 0)>>, MegaImage)}

(***************************************************************************)
(* State                                                                   *)
(***************************************************************************)

VARIABLES
    pc,          \* position in the program
    alternates,  \* what dfudev.alternates() returns: <<[name, alt], ...>>
    hexfile,     \* the IntelHex image
    lsIdx,       \* load_sectors: index of the alternate being walked
    lsGroups,    \* load_sectors: the sector specs of the layout still to walk
    lsAddr,      \* load_sectors: the address cursor addr
    yielded,     \* the dictionaries list() has collected from the generator
    expanded,    \* history: every sector the while loop visited
    sectors,     \* the module-level list of planned sectors
    err,         \* the exception that ended the program, kind "none" if none
    phase,       \* "erase" or "flash": the caller of set_alternate_safe
    idx,         \* erase/flash: 1-based index of the sector in the for loop
    blocknum,    \* flash: the block number of the inner loop
    status,      \* the state of the last status the device returned
    elapsed,     \* time waited in the current wait, in 1/32 time units
    polls,       \* busy answers seen in the current timed wait
    devAlt,      \* the alternate last selected on the device
    trace,       \* history: the requests issued to the outside, in order
    sasError,    \* history: whether get_state answered ERROR in set_alternate_safe
    errorsSeen,  \* history: how often get_state has answered ERROR
    outcome      \* history: the last completed wait, [op, state]

planVars == <<alternates, hexfile, lsIdx, lsGroups, lsAddr, yielded, expanded, sectors>>
runVars == <<phase, idx, blocknum, status, elapsed, polls, devAlt, trace, sasError,
             errorsSeen, outcome>>
vars == <<pc, err, planVars, runVars>>

NoError == [kind |-> "none", status |-> "none"]
Exception(kind) == [kind |-> kind, status |-> "none"]

InitWith(in, start) ==
    /\ pc = start
    /\ alternates = in.alts
    /\ hexfile = in.hex
    /\ lsIdx = 1
    /\ lsGroups = <<>>
    /\ lsAddr = 0
    /\ yielded = <<>>
    /\ expanded = <<>>
    /\ sectors = <<>>
    /\ err = NoError
    /\ phase = "none"
    /\ idx = 0
    /\ blocknum = 0
    /\ status = "none"
    /\ elapsed = 0
    /\ polls = 0
    /\ devAlt = -1
    /\ trace = <<>>
    /\ sasError = FALSE
    /\ errorsSeen = 0
    /\ outcome = [op |-> "none", state |-> "none"]

\* an exception propagates to the top level and ends the program
Raise(e) ==
    /\ pc' = "error"
    /\ err' = e

(***************************************************************************)
(* load_sectors, consumed by list()                                        *)
(***************************************************************************)

\* lines 32-36: the next alternate of the for loop; its name is split and the
\* address parsed
ParseName ==
    /\ pc = "load_name"
    /\ lsIdx <= Len(alternates)
    /\ LET fields == Split(alternates[lsIdx].name, "/")
           a == PyIntBase0(fields[2])
       IN  IF Len(fields) # 3
           THEN Raise(Exception("ValueError")) /\ UNCHANGED <<lsGroups, lsAddr>>
           ELSE IF ~a.ok
           THEN Raise(Exception("ValueError")) /\ UNCHANGED <<lsGroups, lsAddr>>
           ELSE /\ lsAddr' = a.val
                /\ lsGroups' = Split(fields[3], ",")
                /\ pc' = "load_group"
                /\ UNCHANGED err
    /\ UNCHANGED <<alternates, hexfile, lsIdx, yielded, expanded, sectors, runVars>>

\* lines 38-63: one sector spec of the layout is parsed and its sectors walked;
\* after the last spec the for loop moves to the next alternate
ExpandGroup ==
    /\ pc = "load_group"
    /\ LET g == ParseSectorSpec(Head(lsGroups))
           alt == alternates[lsIdx].alt
           walk == WalkGroup(Segments(hexfile), alt, lsAddr, g.val.size, g.val.repeat)
       IN  IF ~g.ok
           THEN /\ Raise(Exception(g.exc))
                /\ UNCHANGED <<lsIdx, lsGroups, lsAddr, yielded, expanded>>
           ELSE /\ expanded' = expanded \o walk
                /\ yielded' = yielded \o YieldOf(hexfile, walk)
                /\ lsAddr' = CursorAfter(lsAddr, g.val.size, g.val.repeat)
                /\ lsGroups' = Tail(lsGroups)
                /\ lsIdx' = IF Tail(lsGroups) = <<>> THEN lsIdx + 1 ELSE lsIdx
                /\ pc' = IF Tail(lsGroups) = <<>> THEN "load_name" ELSE "load_group"
                /\ UNCHANGED err
    /\ UNCHANGED <<alternates, hexfile, sectors, runVars>>

\* mutant of ListSectors: the sectors yielded so far are handed on before the
\* generator is exhausted
ListSectorsEarly ==
    /\ pc = "load_name"
    /\ sectors' = yielded
    /\ pc' = "erase_loop"
    /\ phase' = "erase"
    /\ idx' = 1
    /\ UNCHANGED <<err, alternates, hexfile, lsIdx, lsGroups, lsAddr, yielded, expanded,
                   blocknum, status, elapsed, polls, devAlt, trace, sasError, errorsSeen, outcome>>

\* lines 174-177: the generator is exhausted, list() returns and the list is
\* bound to sectors
ListSectors ==
    /\ pc = "load_name"
    /\ lsIdx > Len(alternates)
    /\ sectors' = yielded
    /\ pc' = "erase_loop"
    /\ phase' = "erase"
    /\ idx' = 1
    /\ UNCHANGED <<err, alternates, hexfile, lsIdx, lsGroups, lsAddr, yielded, expanded,
                   blocknum, status, elapsed, polls, devAlt, trace, sasError, errorsSeen, outcome>>

(***************************************************************************)
(* The device, as the tool sees it                                         *)
(***************************************************************************)

\* the states a status query can report; OTHER stands for the states this
\* workflow does not exercise
DfuStates ==
    {"IDLE", "DOWNLOAD_BUSY", "DOWNLOAD_IDLE", "MANIFEST_SYNC", "MANIFEST", "ERROR",
     "OTHER"}

\* how long one poll of a wait can take, in 1/32 time units
PollTicks == {1, 1024}

\* most busy answers the device gives in one timed wait
MaxPolls == 3

\* most selections of one run at which the device is found in ERROR
MaxStaleErrors == 1

NoTimeout == -1

\* dfudev.wait_while_state(state, timeout) after one more status query that
\* answered st with `waited` time gone: the wait returns st as soon as st is not
\* the busy state, fails once the timeout has passed, and polls again otherwise
WaitWhileState(busy, timeout32, st, waited) ==
    IF st # busy THEN "return"
    ELSE IF timeout32 # NoTimeout /\ waited > timeout32 THEN "timeout"
    ELSE "busy"

Request(op, arg, data) == [op |-> op, arg |-> arg, data |-> data]

Issue(req) == trace' = Append(trace, req)

Completed(op, st) == outcome' = [op |-> op, state |-> st]

RuntimeError(st) == [kind |-> "RuntimeError", status |-> st]

(***************************************************************************)
(* Device discovery (lines 154-170)                                        *)
(***************************************************************************)

\* line 169: raise ValueError('No STM32 DfuSe device found.')
DeviceNotFound == [kind |-> "ValueError", status |-> "No STM32 DfuSe device found."]

\* usb.core.find(idVendor=0x0483, idProduct=0xdf11)
FindDevice ==
    /\ pc = "find"
    /\ Issue(Request("find", 0, <<>>))
    /\ \E present \in BOOLEAN :
          pc' = IF present THEN "load_name" ELSE "enter_dfu"
    /\ UNCHANGED <<err, planVars, phase, idx, blocknum, status, elapsed, polls, devAlt,
                   sasError, errorsSeen, outcome>>

\* the errno of the USBError enter_dfu_mode raises: 0 stands for no error, 32
\* is EPIPE, 19 (ENODEV) stands for every other errno
UsbErrnos == {0, 32, 19}

\* mutant of EnterDfuMode: every USBError is swallowed
EnterDfuModeSwallowAll ==
    /\ pc = "enter_dfu"
    /\ \E errno \in UsbErrnos :
          /\ Issue(Request("enter_dfu_mode", errno, <<>>))
          /\ pc' = "rescan" /\ UNCHANGED err
    /\ UNCHANGED <<planVars, phase, idx, blocknum, status, elapsed, polls, devAlt,
                   sasError, errorsSeen, outcome>>

\* lines 159-166: my_drive.enter_dfu_mode(); a USBError is swallowed only when
\* its errno is 32.  The request's arg records the errno the command raised.
EnterDfuMode ==
    /\ pc = "enter_dfu"
    /\ \E errno \in UsbErrnos :
          /\ Issue(Request("enter_dfu_mode", errno, <<>>))
          /\ IF errno # 0 /\ errno # 32
             THEN Raise(Exception("USBError"))
             ELSE pc' = "rescan" /\ UNCHANGED err
    /\ UNCHANGED <<planVars, phase, idx, blocknum, status, elapsed, polls, devAlt,
                   sasError, errorsSeen, outcome>>

\* the second usb.core.find after the settle delay
Rescan ==
    /\ pc = "rescan"
    /\ Issue(Request("find", 0, <<>>))
    /\ \E present \in BOOLEAN :
          IF present
          THEN pc' = "load_name" /\ UNCHANGED err
          ELSE Raise(DeviceNotFound)
    /\ UNCHANGED <<planVars, phase, idx, blocknum, status, elapsed, polls, devAlt,
                   sasError, errorsSeen, outcome>>

(***************************************************************************)
(* set_alternate_safe (lines 65-69)                                        *)
(***************************************************************************)

\* where set_alternate_safe returns to
AfterSelect == IF phase = "erase" THEN "erase_req" ELSE "flash_addr"

\* mutant of NeedsClear: the status is cleared whatever the state
NeedsClearAlways(st) == TRUE

\* line 67: the condition under which the status is cleared
NeedsClear(st) == st = "ERROR"

\* mutant of SetAlternate: the alternate of the first sector is selected for
\* every sector
SetAlternateOfFirst ==
    /\ pc = "sas_set"
    /\ Issue(Request("set_alternate", sectors[1].alt, <<>>))
    /\ devAlt' = sectors[1].alt
    /\ sasError' = FALSE
    /\ pc' = "sas_get"
    /\ UNCHANGED <<err, planVars, phase, idx, blocknum, status, elapsed, polls,
                   errorsSeen, outcome>>

\* line 66
SetAlternate ==
    /\ pc = "sas_set"
    /\ Issue(Request("set_alternate", sectors[idx].alt, <<>>))
    /\ devAlt' = sectors[idx].alt
    /\ sasError' = FALSE
    /\ pc' = "sas_get"
    /\ UNCHANGED <<err, planVars, phase, idx, blocknum, status, elapsed, polls,
                   errorsSeen, outcome>>

\* line 67
GetState ==
    /\ pc = "sas_get"
    /\ \E st \in DfuStates :
          /\ st = "ERROR" => errorsSeen < MaxStaleErrors
          /\ errorsSeen' = IF st = "ERROR" THEN errorsSeen + 1 ELSE errorsSeen
          /\ status' = st
          /\ sasError' = (st = "ERROR")
          /\ IF NeedsClear(st)
             THEN pc' = "sas_clear" /\ UNCHANGED outcome
             ELSE pc' = AfterSelect /\ Completed("select", st)
    /\ UNCHANGED <<err, planVars, phase, idx, blocknum, elapsed, polls, devAlt, trace>>

\* line 68
ClearStatus ==
    /\ pc = "sas_clear"
    /\ Issue(Request("clear_status", 0, <<>>))
    /\ pc' = "sas_wait"
    /\ UNCHANGED <<err, planVars, phase, idx, blocknum, status, elapsed, polls, devAlt,
                   sasError, errorsSeen, outcome>>

\* line 69: wait_while_state(DFU_ERROR), no timeout
WaitWhileError ==
    /\ pc = "sas_wait"
    /\ \E st \in DfuStates :
          /\ status' = st
          /\ IF WaitWhileState("ERROR", NoTimeout, st, 0) = "return"
             THEN pc' = AfterSelect /\ Completed("select", st)
             ELSE UNCHANGED <<pc, outcome>>
    /\ UNCHANGED <<err, planVars, phase, idx, blocknum, elapsed, polls, devAlt, trace,
                   sasError, errorsSeen>>

(***************************************************************************)
(* erase (lines 71-79)                                                     *)
(***************************************************************************)

\* mutant of EraseTimeout32: the timeout is len/16
EraseTimeout16(sector) == 2 * Len(sector.data)

\* line 76: timeout=len(sector['data'])/32, in 1/32 time units
EraseTimeout32(sector) == Len(sector.data)

\* mutant of EraseFailed: only ERROR counts as a failure
EraseFailedOnError(st) == st = "ERROR"

\* line 77
EraseFailed(st) == st # "DOWNLOAD_IDLE"

\* mutant of EraseLoop: the loop ends one sector early
EraseLoopShort ==
    /\ pc = "erase_loop"
    /\ IF idx < Len(sectors)
       THEN pc' = "sas_set" /\ UNCHANGED <<phase, idx>>
       ELSE pc' = "flash_loop" /\ phase' = "flash" /\ idx' = 1
    /\ UNCHANGED <<err, planVars, blocknum, status, elapsed, polls, devAlt, trace,
                   sasError, errorsSeen, outcome>>

\* lines 72-74 and 79: the for loop; after the last sector flash(sectors) begins
EraseLoop ==
    /\ pc = "erase_loop"
    /\ IF idx <= Len(sectors)
       THEN pc' = "sas_set" /\ UNCHANGED <<phase, idx>>
       ELSE pc' = "flash_loop" /\ phase' = "flash" /\ idx' = 1
    /\ UNCHANGED <<err, planVars, blocknum, status, elapsed, polls, devAlt, trace,
                   sasError, errorsSeen, outcome>>

\* line 75
EraseRequest ==
    /\ pc = "erase_req"
    /\ Issue(Request("erase", sectors[idx].addr, <<>>))
    /\ elapsed' = 0
    /\ polls' = 0
    /\ pc' = "erase_wait"
    /\ UNCHANGED <<err, planVars, phase, idx, blocknum, status, devAlt, sasError, errorsSeen, outcome>>

\* lines 76-78: one status query of the wait, and the check of what it returns
EraseWait ==
    /\ pc = "erase_wait"
    /\ \E st \in DfuStates, dt \in PollTicks :
          LET w == WaitWhileState("DOWNLOAD_BUSY", EraseTimeout32(sectors[idx]), st,
                                  elapsed + dt)
          IN  /\ status' = st
              /\ CASE w = "busy" ->
                        /\ polls < MaxPolls
                        /\ polls' = polls + 1
                        /\ elapsed' = elapsed + dt
                        /\ UNCHANGED <<pc, err, idx, outcome>>
                   [] w = "timeout" ->
                        /\ Raise(Exception("TimeoutError"))
                        /\ elapsed' = elapsed + dt
                        /\ UNCHANGED <<idx, polls, outcome>>
                   [] w = "return" ->
                        /\ Completed("erase", st)
                        /\ IF EraseFailed(st)
                           THEN Raise(RuntimeError(st)) /\ UNCHANGED idx
                           ELSE pc' = "erase_loop" /\ idx' = idx + 1 /\ UNCHANGED err
                        /\ UNCHANGED <<elapsed, polls>>
    /\ UNCHANGED <<planVars, phase, blocknum, devAlt, trace, sasError, errorsSeen>>

(***************************************************************************)
(* flash (lines 81-99)                                                     *)
(***************************************************************************)

\* mutant of Blocks: the last, shorter block is dropped
BlocksFloor(data) ==
    LET n == Len(data) \div TRANSFER_SIZE
    IN  [k \in 1..n |->
            SubSeq(data, (k - 1) * TRANSFER_SIZE + 1, k * TRANSFER_SIZE)]

\* line 91: blocks = [data[i:i + TRANSFER_SIZE] for i in range(0, len(data), TRANSFER_SIZE)]
Blocks(data) ==
    LET n == (Len(data) + TRANSFER_SIZE - 1) \div TRANSFER_SIZE
    IN  [k \in 1..n |->
            SubSeq(data, (k - 1) * TRANSFER_SIZE + 1,
                   IF k * TRANSFER_SIZE < Len(data) THEN k * TRANSFER_SIZE ELSE Len(data))]

\* line 87
SetAddressFailed(st) == st # "DOWNLOAD_IDLE"

\* mutant of WriteFailed: only ERROR counts as a failure
WriteFailedOnError(st) == st = "ERROR"

\* line 97
WriteFailed(st) == st # "DOWNLOAD_IDLE"

\* lines 82-84 and 99: the for loop; after the last sector the module calls
\* jump_to_application
FlashLoop ==
    /\ pc = "flash_loop"
    /\ pc' = IF idx <= Len(sectors) THEN "sas_set" ELSE "jump_addr"
    /\ UNCHANGED <<err, planVars, runVars>>

\* line 85
SetAddress ==
    /\ pc = "flash_addr"
    /\ Issue(Request("set_address", sectors[idx].addr, <<>>))
    /\ pc' = "flash_addrwait"
    /\ UNCHANGED <<err, planVars, phase, idx, blocknum, status, elapsed, polls, devAlt,
                   sasError, errorsSeen, outcome>>

\* lines 86-92: the wait, the check, and the entry into the block loop
SetAddressWait ==
    /\ pc = "flash_addrwait"
    /\ \E st \in DfuStates :
          /\ status' = st
          /\ IF WaitWhileState("DOWNLOAD_BUSY", NoTimeout, st, 0) = "return"
             THEN /\ Completed("set_address", st)
                  /\ IF SetAddressFailed(st)
                     THEN Raise(RuntimeError(st)) /\ UNCHANGED <<idx, blocknum>>
                     ELSE /\ blocknum' = 0
                          /\ IF Blocks(sectors[idx].data) = <<>>
                             THEN pc' = "flash_loop" /\ idx' = idx + 1
                             ELSE pc' = "flash_write" /\ UNCHANGED idx
                          /\ UNCHANGED err
             ELSE UNCHANGED <<pc, err, idx, blocknum, outcome>>
    /\ UNCHANGED <<planVars, phase, elapsed, polls, devAlt, trace, sasError, errorsSeen>>

\* line 95
WriteBlock ==
    /\ pc = "flash_write"
    /\ Issue(Request("write", blocknum, Blocks(sectors[idx].data)[blocknum + 1]))
    /\ pc' = "flash_writewait"
    /\ UNCHANGED <<err, planVars, phase, idx, blocknum, status, elapsed, polls, devAlt,
                   sasError, errorsSeen, outcome>>

\* lines 96-98: the wait, the check, and the step of the block loop
WriteWait ==
    /\ pc = "flash_writewait"
    /\ \E st \in DfuStates :
          /\ status' = st
          /\ IF WaitWhileState("DOWNLOAD_BUSY", NoTimeout, st, 0) = "return"
             THEN /\ Completed("write", st)
                  /\ IF WriteFailed(st)
                     THEN Raise(RuntimeError(st)) /\ UNCHANGED <<idx, blocknum>>
                     ELSE /\ IF blocknum + 1 < Len(Blocks(sectors[idx].data))
                             THEN /\ blocknum' = blocknum + 1
                                  /\ pc' = "flash_write"
                                  /\ UNCHANGED idx
                             ELSE /\ pc' = "flash_loop"
                                  /\ idx' = idx + 1
                                  /\ UNCHANGED blocknum
                          /\ UNCHANGED err
             ELSE UNCHANGED <<pc, err, idx, blocknum, outcome>>
    /\ UNCHANGED <<planVars, phase, elapsed, polls, devAlt, trace, sasError, errorsSeen>>

(***************************************************************************)
(* jump_to_application (lines 126-135), called with 0x08000000             *)
(***************************************************************************)

APP_ADDRESS == 134217728

\* mutant of JumpAddressFailed: only ERROR counts as a failure
JumpAddressFailedOnError(st) == st = "ERROR"

\* line 129
JumpAddressFailed(st) == st # "DOWNLOAD_IDLE"

\* line 134
LeaveFailed(st) == st # "MANIFEST"

\* line 127
JumpSetAddress ==
    /\ pc = "jump_addr"
    /\ Issue(Request("set_address", APP_ADDRESS, <<>>))
    /\ pc' = "jump_addrwait"
    /\ UNCHANGED <<err, planVars, phase, idx, blocknum, status, elapsed, polls, devAlt,
                   sasError, errorsSeen, outcome>>

\* lines 128-130
JumpAddressWait ==
    /\ pc = "jump_addrwait"
    /\ \E st \in DfuStates :
          /\ status' = st
          /\ IF WaitWhileState("DOWNLOAD_BUSY", NoTimeout, st, 0) = "return"
             THEN /\ Completed("jump_address", st)
                  /\ IF JumpAddressFailed(st)
                     THEN Raise(RuntimeError(st))
                     ELSE pc' = "jump_leave" /\ UNCHANGED err
             ELSE UNCHANGED <<pc, err, outcome>>
    /\ UNCHANGED <<planVars, phase, idx, blocknum, elapsed, polls, devAlt, trace, sasError, errorsSeen>>

\* line 132
Leave ==
    /\ pc = "jump_leave"
    /\ Issue(Request("leave", 0, <<>>))
    /\ pc' = "jump_leavewait"
    /\ UNCHANGED <<err, planVars, phase, idx, blocknum, status, elapsed, polls, devAlt,
                   sasError, errorsSeen, outcome>>

\* lines 133-135
LeaveWait ==
    /\ pc = "jump_leavewait"
    /\ \E st \in DfuStates :
          /\ status' = st
          /\ IF WaitWhileState("MANIFEST_SYNC", NoTimeout, st, 0) = "return"
             THEN /\ Completed("leave", st)
                  /\ IF LeaveFailed(st)
                     THEN Raise(RuntimeError(st))
                     ELSE pc' = "done" /\ UNCHANGED err
             ELSE UNCHANGED <<pc, err, outcome>>
    /\ UNCHANGED <<planVars, phase, idx, blocknum, elapsed, polls, devAlt, trace, sasError, errorsSeen>>

(***************************************************************************)
(* Specifications                                                          *)
(***************************************************************************)

\* the images of whole runs: empty, two sectors boundary to boundary, two
\* separate bytes, and one segment over every small sector
RunImages == [empty |-> ImageOn({}), pair |-> ImageOn(16..19),
              bytes |-> ImageOn({17, 20}), all |-> ImageOn(15..22)]

\* the lists dfudev.alternates() returns in whole runs
RunAlternates ==
    [one |-> <<Alternate(DescSmallA, 0)>>,
     two |-> <<Alternate(DescSmallA, 0), Alternate(DescSmallB, 1)>>,
     swapped |-> <<Alternate(DescSmallB, 1), Alternate(DescSmallA, 0)>>,
     badSecond |-> <<Alternate(DescSmallA, 0), Alternate(DescBadSecond, 1)>>,
     badFirst |-> <<Alternate(DescTwoFields, 0)>>,
     blocks |-> <<Alternate(DescBlocks, 0)>>]

\* whole runs: an empty plan, three sectors of one alternate, four sectors of
\* two alternates in either order of the list, a plan that fails at the second
\* or at the first descriptor, and a sector of two blocks
RunInputs ==
    {Input(RunAlternates.one, RunImages.empty),
     Input(RunAlternates.one, RunImages.all),
     Input(RunAlternates.two, RunImages.bytes),
     Input(RunAlternates.swapped, RunImages.pair),
     Input(RunAlternates.badSecond, RunImages.pair),
     Input(RunAlternates.badFirst, RunImages.empty),
     Input(RunAlternates.blocks, BlocksImage)}

\* the whole program, from device discovery on
Init == \E in \in RunInputs : InitWith(in, "find")

Next ==
    \/ FindDevice \/ EnterDfuMode \/ Rescan
    \/ ParseName \/ ExpandGroup \/ ListSectors
    \/ EraseLoop \/ SetAlternate \/ GetState \/ ClearStatus \/ WaitWhileError
    \/ EraseRequest \/ EraseWait
    \/ FlashLoop \/ SetAddress \/ SetAddressWait \/ WriteBlock \/ WriteWait
    \/ JumpSetAddress \/ JumpAddressWait \/ Leave \/ LeaveWait

Spec == Init /\ [][Next]_vars

\* planning alone: load_sectors applied to every input
InitPlan == \E in \in PlanInputs : InitWith(in, "load_name")

NextPlan == ParseName \/ ExpandGroup \/ ListSectors

SpecPlan == InitPlan /\ [][NextPlan]_vars


(***************************************************************************)
(* Vocabulary of the properties                                            *)
(***************************************************************************)

Min(a, b) == IF a < b THEN a ELSE b
Max(a, b) == IF a > b THEN a ELSE b

\* the half-open ranges [addr, addr + size) and [seg[1], seg[2]) share a byte
Intersects(v, seg) == Max(v.addr, seg[1]) < Min(v.addr + v.size, seg[2])

Overlapped(v) ==
    LET segs == Segments(hexfile)
    IN  \E j \in 1..Len(segs) : Intersects(v, segs[j])

\* address a is covered by one of the segments
Covered(segs, a) == \E j \in 1..Len(segs) : segs[j][1] <= a /\ a < segs[j][2]

IsTouched(v) == v.hit # 0

\* the visited sectors that were touched: the k-th of them is the sector the
\* k-th yielded dictionary was made for
PlannedSectors == SelectSeq(expanded, IsTouched)

YieldMatches ==
    /\ Len(yielded) = Len(PlannedSectors)
    /\ \A k \in 1..Len(yielded) :
          /\ yielded[k].alt = PlannedSectors[k].alt
          /\ yielded[k].addr = PlannedSectors[k].addr

\* every sector visited so far in alternate alt has a positive size
SizesPositive(alt) ==
    \A i \in 1..Len(expanded) : expanded[i].alt = alt => expanded[i].size > 0

\* the position of alternate alt in the list the device reports
AltPos(alt) == CHOOSE i \in 1..Len(alternates) : alternates[i].alt = alt

\* the base address of the layout of alternate alt
BaseOf(alt) == PyIntBase0(Split(alternates[AltPos(alt)].name, "/")[2]).val

Planned == pc = "erase_loop"

(***************************************************************************)
(* C1                                                                      *)
(***************************************************************************)

\* C1 as stated: every yielded sector's byte range [addr, addr+size) shares a
\* byte with some image segment.
C1_AsStated ==
    /\ YieldMatches
    /\ \A k \in 1..Len(yielded) : Overlapped(PlannedSectors[k])

\* C1 amended: every yielded sector of positive size shares a byte with some
\* image segment; a sector that no segment touches is never yielded.
C1_NoDisjointSector ==
    /\ YieldMatches
    /\ \A k \in 1..Len(yielded) :
          PlannedSectors[k].size > 0 => Overlapped(PlannedSectors[k])
    /\ \A i \in 1..Len(expanded) :
          (expanded[i].size > 0 /\ ~Overlapped(expanded[i])) => ~IsTouched(expanded[i])

\* planning has ended with a sector yielded and a sector of positive size skipped
C1_Witness ==
    /\ Planned
    /\ yielded # <<>>
    /\ \E i \in 1..Len(expanded) : expanded[i].size > 0 /\ ~IsTouched(expanded[i])

(***************************************************************************)
(* C2                                                                      *)
(***************************************************************************)

\* C2: a segment that ends exactly at a sector's start is never the segment the
\* loop breaks at for that sector, and a sector is touched whenever a segment
\* starts below its start and ends one byte after it.
C2_OverlapBoundary ==
    \A i \in 1..Len(expanded) : \A j \in 1..Len(Segments(hexfile)) :
        LET v == expanded[i]
            seg == Segments(hexfile)[j]
        IN  /\ seg[2] = v.addr => v.hit # j
            /\ (seg[1] < v.addr /\ seg[2] = v.addr + 1) => IsTouched(v)

\* both boundary cases have been met: a sector left out although a segment ends
\* at its start, and a sector touched by a segment ending one byte into it
C2_Witness ==
    /\ \E i \in 1..Len(expanded) : \E j \in 1..Len(Segments(hexfile)) :
          Segments(hexfile)[j][2] = expanded[i].addr /\ ~IsTouched(expanded[i])
    /\ \E i \in 1..Len(expanded) : \E j \in 1..Len(Segments(hexfile)) :
          /\ Segments(hexfile)[j][1] < expanded[i].addr
          /\ Segments(hexfile)[j][2] = expanded[i].addr + 1
          /\ expanded[i].hit = j

(***************************************************************************)
(* C3                                                                      *)
(***************************************************************************)

PayloadExact(y, v) ==
    LET segs == Segments(hexfile)
    IN  /\ Len(y.data) = v.size
        /\ \A n \in 1..Len(y.data) :
              y.data[n] = IF Covered(segs, v.addr + n - 1)
                          THEN hexfile[v.addr + n - 1] ELSE PADDING

\* C3 as stated: every yielded payload has the sector's size and holds the image
\* bytes where a segment covers the address and 0xFF elsewhere.
C3_AsStated ==
    /\ YieldMatches
    /\ \A k \in 1..Len(yielded) : PayloadExact(yielded[k], PlannedSectors[k])

\* C3 amended: the same for every yielded sector of positive size.
C3_PayloadOfPositiveSector ==
    /\ YieldMatches
    /\ \A k \in 1..Len(yielded) :
          PlannedSectors[k].size > 0 => PayloadExact(yielded[k], PlannedSectors[k])

\* a payload that holds both image bytes and padding has been yielded
C3_Witness ==
    \E k \in 1..Len(yielded) :
        /\ PlannedSectors[k].size > 0
        /\ \E n \in 1..Len(yielded[k].data) : yielded[k].data[n] = PADDING
        /\ \E n \in 1..Len(yielded[k].data) : yielded[k].data[n] # PADDING

(***************************************************************************)
(* C4                                                                      *)
(***************************************************************************)

FirstOfAlternate(i) == i = 1 \/ expanded[i - 1].alt # expanded[i].alt

Contiguous ==
    /\ \A i \in 1..Len(expanded) :
          FirstOfAlternate(i) => expanded[i].addr = BaseOf(expanded[i].alt)
    /\ \A i \in 1..(Len(expanded) - 1) :
          expanded[i].alt = expanded[i + 1].alt =>
              expanded[i].addr + expanded[i].size = expanded[i + 1].addr

\* C4 as stated: within one alternate the expanded sectors start at the base
\* address, each ends where the next starts, and the start addresses strictly
\* increase.
C4_AsStated ==
    /\ Contiguous
    /\ \A i \in 1..(Len(expanded) - 1) :
          expanded[i].alt = expanded[i + 1].alt =>
              expanded[i].addr < expanded[i + 1].addr

\* C4 amended: the sectors start at the base address and each ends where the
\* next starts; the start address strictly increases after every sector of
\* positive size.
C4_ContiguousSectors ==
    /\ Contiguous
    /\ \A i \in 1..(Len(expanded) - 1) :
          (expanded[i].alt = expanded[i + 1].alt /\ expanded[i].size > 0) =>
              expanded[i].addr < expanded[i + 1].addr

\* a layout of two groups of different sizes has been expanded across the
\* group boundary
C4_Witness ==
    /\ Planned
    /\ \E i \in 1..(Len(expanded) - 1) :
          /\ expanded[i].alt = expanded[i + 1].alt
          /\ expanded[i].size > 0
          /\ expanded[i + 1].size > 0
          /\ expanded[i].size # expanded[i + 1].size

(***************************************************************************)
(* C5                                                                      *)
(***************************************************************************)

\* C5 as stated: the yielded list ascends by alternate index and, within one
\* alternate, by address.
C5_AsStated ==
    \A k \in 1..Len(yielded) : \A l \in (k + 1)..Len(yielded) :
        \/ yielded[k].alt < yielded[l].alt
        \/ yielded[k].alt = yielded[l].alt /\ yielded[k].addr <= yielded[l].addr

\* C5 amended: the yielded list follows the order in which the device lists its
\* alternates and, within one alternate whose sector sizes are positive, ascends
\* by address.
C5_PlanOrder ==
    \A k \in 1..Len(yielded) : \A l \in (k + 1)..Len(yielded) :
        \/ AltPos(yielded[k].alt) < AltPos(yielded[l].alt)
        \/ /\ yielded[k].alt = yielded[l].alt
           /\ SizesPositive(yielded[k].alt) => yielded[k].addr < yielded[l].addr

\* a plan with two sectors of one alternate and a sector of another
C5_Witness ==
    /\ Planned
    /\ \E k \in 1..Len(yielded) : \E l \in (k + 1)..Len(yielded) :
          yielded[k].alt = yielded[l].alt /\ SizesPositive(yielded[k].alt)
    /\ \E k \in 1..Len(yielded) : \E l \in (k + 1)..Len(yielded) :
          yielded[k].alt # yielded[l].alt

(***************************************************************************)
(* C6                                                                      *)
(***************************************************************************)

IsScenario1 ==
    /\ alternates = <<Alternate(DescScenario1, 0)>>
    /\ hexfile = Scenario1Image

\* the one planned sector of scenario 1: at 0x08004000, 16384 bytes, the first
\* 256 from the image and the rest 0xFF
Scenario1Plan ==
    /\ Len(sectors) = 1
    /\ sectors[1].alt = 0
    /\ sectors[1].addr = 134234112
    /\ Len(sectors[1].data) = 16384
    /\ \A n \in 1..256 : sectors[1].data[n] = hexfile[134234112 + n - 1]
    /\ \A n \in 257..16384 : sectors[1].data[n] = PADDING

\* the planned sector is the n-th sector of the layout, a 16K sector, and the
\* only one touched
Scenario1SectorIs(n) ==
    /\ Len(expanded) = 5
    /\ expanded[n].addr = 134234112
    /\ expanded[n].size = 16384
    /\ \A i \in 1..Len(expanded) : IsTouched(expanded[i]) <=> i = n

\* C6 as stated: scenario 1 plans exactly one sector, at 0x08004000 with 16384
\* bytes (256 image bytes, then 0xFF), and it is the 3rd 16K sector.
C6_AsStated == (IsScenario1 /\ Planned) => (Scenario1Plan /\ Scenario1SectorIs(3))

\* C6 amended: the same, and the sector is the 2nd 16K sector of the layout.
C6_Scenario1 == (IsScenario1 /\ Planned) => (Scenario1Plan /\ Scenario1SectorIs(2))

\* scenario 1 has been planned
C6_Witness == IsScenario1 /\ Planned /\ Len(sectors) = 1

(***************************************************************************)
(* C7                                                                      *)
(***************************************************************************)

\* how many yielded dictionaries carry this alternate and address
YieldCount(alt, addr) ==
    Cardinality({k \in 1..Len(yielded) : yielded[k].alt = alt /\ yielded[k].addr = addr})

\* the yielded dictionaries of alternate alt whose payload holds address a
PayloadsHolding(alt, a) ==
    {k \in 1..Len(yielded) :
        /\ yielded[k].alt = alt
        /\ yielded[k].addr <= a
        /\ a < yielded[k].addr + Len(yielded[k].data)}

\* address a lies in a visited sector of alternate alt
InLayout(alt, a) ==
    \E i \in 1..Len(expanded) :
        /\ expanded[i].alt = alt
        /\ expanded[i].addr <= a
        /\ a < expanded[i].addr + expanded[i].size

\* the image is one segment from the start of sector i to the end of sector i+1
SpansTwoSectors(i) ==
    /\ i < Len(expanded)
    /\ expanded[i].alt = expanded[i + 1].alt
    /\ Segments(hexfile) =
          <<<<expanded[i].addr, expanded[i + 1].addr + expanded[i + 1].size>>>>

\* exactly sectors i and i+1 are yielded for their alternate
ExactlyTheTwo(i) ==
    LET mine == {k \in 1..Len(yielded) : yielded[k].alt = expanded[i].alt}
    IN  /\ Cardinality(mine) = 2
        /\ {yielded[k].addr : k \in mine} = {expanded[i].addr, expanded[i + 1].addr}

AlternateIndexes == {alternates[i].alt : i \in 1..Len(alternates)}

\* C7 as stated: a sector is touched exactly when its range intersects a
\* segment, an intersecting sector is yielded exactly once, a segment spanning
\* two adjacent sectors boundary to boundary yields exactly those two, and every
\* image byte inside the layout lies in exactly one planned payload.
C7_AsStated ==
    /\ YieldMatches
    /\ \A i \in 1..Len(expanded) :
          /\ IsTouched(expanded[i]) <=> Overlapped(expanded[i])
          /\ Overlapped(expanded[i]) =>
                YieldCount(expanded[i].alt, expanded[i].addr) = 1
          /\ (Planned /\ SpansTwoSectors(i)) => ExactlyTheTwo(i)
    /\ \A alt \in AlternateIndexes : \A a \in DOMAIN hexfile :
          InLayout(alt, a) => Cardinality(PayloadsHolding(alt, a)) = 1

\* C7 amended: the same for sectors of positive size and for layouts whose
\* sector sizes are all positive.
C7_TouchedIsIntersection ==
    /\ YieldMatches
    /\ \A i \in 1..Len(expanded) :
          /\ expanded[i].size > 0 =>
                (IsTouched(expanded[i]) <=> Overlapped(expanded[i]))
          /\ (Overlapped(expanded[i]) /\ SizesPositive(expanded[i].alt)) =>
                YieldCount(expanded[i].alt, expanded[i].addr) = 1
          /\ (Planned /\ SpansTwoSectors(i) /\ SizesPositive(expanded[i].alt)) =>
                ExactlyTheTwo(i)
    /\ \A alt \in AlternateIndexes : \A a \in DOMAIN hexfile :
          (InLayout(alt, a) /\ SizesPositive(alt)) =>
              Cardinality(PayloadsHolding(alt, a)) = 1

\* a segment spanning two adjacent sectors boundary to boundary has been planned
\* in a layout that has a third sector
C7_Witness ==
    /\ Planned
    /\ \E i \in 1..Len(expanded) :
          /\ SpansTwoSectors(i)
          /\ SizesPositive(expanded[i].alt)
          /\ ExactlyTheTwo(i)
          /\ \E j \in 1..Len(expanded) :
                expanded[j].alt = expanded[i].alt /\ ~IsTouched(expanded[j])

(***************************************************************************)
(* Vocabulary of the properties of a run                                   *)
(***************************************************************************)

\* how many requests of the trace up to position n carry this op
RECURSIVE CountOp(_, _)
CountOp(op, n) ==
    IF n = 0 THEN 0
    ELSE CountOp(op, n - 1) + (IF trace[n].op = op THEN 1 ELSE 0)

\* the position of the last set_alternate request, 0 if there is none
RECURSIVE LastSelect(_)
LastSelect(n) ==
    IF n = 0 THEN 0 ELSE IF trace[n].op = "set_alternate" THEN n ELSE LastSelect(n - 1)

\* clear-status requests issued since the last set_alternate request
ClearsSinceSelect ==
    CountOp("clear_status", Len(trace)) - CountOp("clear_status", LastSelect(Len(trace)))

LastRequest == trace[Len(trace)]

(***************************************************************************)
(* C8                                                                      *)
(***************************************************************************)

\* C8: the wait after a sector's erase request lasts at most size/32 time units
\* (elapsed is in 1/32 units, the size of a planned sector is the length of its
\* payload); passing it raises TimeoutError, and then the program has ended with
\* the erase request of that sector as the last request: one erase request per
\* sector up to it, none for a later sector and no selection after it.
C8_EraseTimeout ==
    /\ pc = "erase_wait" => elapsed <= Len(sectors[idx].data)
    /\ err.kind = "TimeoutError" =>
          /\ pc = "error"
          /\ phase = "erase"
          /\ elapsed > Len(sectors[idx].data)
          /\ LastRequest = Request("erase", sectors[idx].addr, <<>>)
          /\ CountOp("erase", Len(trace)) = idx
          /\ CountOp("set_alternate", Len(trace)) = idx

\* an erase timed out while sectors were still to be erased
C8_Witness ==
    /\ err.kind = "TimeoutError"
    /\ idx < Len(sectors)

(***************************************************************************)
(* C9                                                                      *)
(***************************************************************************)

\* C9: set_alternate_safe has issued one clear-status request when get_state
\* answered ERROR and none otherwise, and where it returns the last status is
\* not ERROR: after a clear-status the wait has ended.
C9_ClearStatusOnce ==
    /\ pc \in {"sas_get", "sas_clear"} => ClearsSinceSelect = 0
    /\ pc = "sas_clear" => sasError /\ status = "ERROR"
    /\ pc = "sas_wait" => sasError /\ ClearsSinceSelect = 1
    /\ pc \in {"erase_req", "flash_addr"} =>
          /\ ClearsSinceSelect = (IF sasError THEN 1 ELSE 0)
          /\ status # "ERROR"
    /\ pc # "sas_clear" => CountOp("clear_status", Len(trace)) = errorsSeen

\* set_alternate_safe has returned after clearing an ERROR
C9_Witness ==
    /\ pc \in {"erase_req", "flash_addr"}
    /\ sasError
    /\ ClearsSinceSelect = 1

(***************************************************************************)
(* C10                                                                     *)
(***************************************************************************)

\* the state an operation is expected to end in
ExpectedState(op) == IF op = "leave" THEN "MANIFEST" ELSE "DOWNLOAD_IDLE"

\* the request an operation waits for
RequestOf(op) == IF op = "jump_address" THEN "set_address" ELSE op

\* C10: a selection never ends in ERROR; an erase, set-address, write-block or
\* leave that ends in another state than the expected one has raised a
\* RuntimeError carrying that state, and its request is the last one issued.
C10_FailureRaises ==
    /\ outcome.op = "select" => outcome.state # "ERROR"
    /\ (outcome.op \in {"erase", "set_address", "write", "jump_address", "leave"}
            /\ outcome.state # ExpectedState(outcome.op)) =>
          /\ pc = "error"
          /\ err = RuntimeError(outcome.state)
          /\ LastRequest.op = RequestOf(outcome.op)
    /\ err.kind = "RuntimeError" => pc = "error" /\ err.status = outcome.state

\* a write-block ended in ERROR and the run ended with sectors still to flash
C10_Witness ==
    /\ pc = "error"
    /\ outcome = [op |-> "write", state |-> "ERROR"]
    /\ idx < Len(sectors)

(***************************************************************************)
(* C11                                                                     *)
(***************************************************************************)

\* the position of the last request of this op in the trace up to n, 0 if none
RECURSIVE LastOf(_, _)
LastOf(op, n) ==
    IF n = 0 THEN 0 ELSE IF trace[n].op = op THEN n ELSE LastOf(op, n - 1)

IsWrite(req) == req.op = "write"

\* the write requests issued since the last set-address request
WritesOfSector ==
    SelectSeq(SubSeq(trace, LastOf("set_address", Len(trace)) + 1, Len(trace)), IsWrite)

RECURSIVE ConcatData(_)
ConcatData(reqs) ==
    IF reqs = <<>> THEN <<>> ELSE Head(reqs).data \o ConcatData(Tail(reqs))

\* ceil(len / 2048)
BlockCount(data) == (Len(data) + TRANSFER_SIZE - 1) \div TRANSFER_SIZE

\* the writes since the sector's set-address are blocks 0 .. n-1 of its payload
WrittenPrefix(sector, n) ==
    LET w == WritesOfSector
    IN  /\ Len(w) = n
        /\ n <= BlockCount(sector.data)
        /\ \A k \in 1..n :
              /\ w[k].arg = k - 1
              /\ Len(w[k].data) >= 1
              /\ Len(w[k].data) <= TRANSFER_SIZE
        /\ ConcatData(w) = SubSeq(sector.data, 1, Min(Len(sector.data), n * TRANSFER_SIZE))

\* the last completed wait ended in DOWNLOAD_IDLE and was the wait of this op
EndedIdle(op) == outcome = [op |-> op, state |-> "DOWNLOAD_IDLE"]

\* C11: in flash, when block k is about to be written the writes since the
\* sector's set-address are exactly blocks 0 .. k-1 of the payload, each of 1 to
\* 2048 bytes, and the wait before it ended in DOWNLOAD_IDLE: the wait of the
\* set-address for block 0, the wait of the previous write otherwise; while a
\* write is waited for no other request is issued; when the loop moves to the
\* next sector all ceil(len/2048) blocks have been written and they concatenate
\* to the payload.
C11_FlashBlocks ==
    /\ pc = "flash_write" =>
          /\ WrittenPrefix(sectors[idx], blocknum)
          /\ blocknum < BlockCount(sectors[idx].data)
          /\ EndedIdle(IF blocknum = 0 THEN "set_address" ELSE "write")
    /\ pc = "flash_writewait" =>
          /\ WrittenPrefix(sectors[idx], blocknum + 1)
          /\ LastRequest.op = "write"
          /\ LastRequest.arg = blocknum
    /\ (pc \in {"flash_loop", "sas_set"} /\ phase = "flash" /\ idx > 1) =>
          /\ WrittenPrefix(sectors[idx - 1], BlockCount(sectors[idx - 1].data))
          /\ ConcatData(WritesOfSector) = sectors[idx - 1].data
          /\ EndedIdle("write")

\* a payload of two blocks has been written, a full block and a block of one
\* byte, and the first block of the next sector is being waited for
C11_Witness ==
    /\ pc = "flash_writewait"
    /\ idx = 2
    /\ BlockCount(sectors[1].data) = 2
    /\ Len(trace[Len(trace) - 4].data) = 1
    /\ CountOp("write", Len(trace)) = 3

(***************************************************************************)
(* C12                                                                     *)
(***************************************************************************)

JumpRequest == Request("set_address", APP_ADDRESS, <<>>)
LeaveRequest == Request("leave", 0, <<>>)

\* the trace ends with the set-address of the jump followed by leave
EndsWithJumpAndLeave ==
    /\ Len(trace) >= 2
    /\ trace[Len(trace) - 1] = JumpRequest
    /\ LastRequest = LeaveRequest

\* C12: jump_to_application issues set-address(0x08000000), waits while
\* DOWNLOAD_BUSY, issues leave only after that wait ended in DOWNLOAD_IDLE,
\* then waits while MANIFEST_SYNC; leave is issued at most once, directly after
\* the set-address, and the program ends without error only when the wait
\* after leave ended in MANIFEST.
C12_JumpOrder ==
    /\ pc = "jump_addrwait" => LastRequest = JumpRequest
    /\ pc = "jump_leave" =>
          /\ LastRequest = JumpRequest
          /\ outcome = [op |-> "jump_address", state |-> "DOWNLOAD_IDLE"]
    /\ pc = "jump_leavewait" =>
          /\ EndsWithJumpAndLeave
          /\ outcome = [op |-> "jump_address", state |-> "DOWNLOAD_IDLE"]
    /\ CountOp("leave", Len(trace)) <= 1
    /\ CountOp("leave", Len(trace)) = 1 => EndsWithJumpAndLeave
    /\ (outcome.op = "jump_address" /\ outcome.state # "DOWNLOAD_IDLE") =>
          /\ pc = "error"
          /\ CountOp("leave", Len(trace)) = 0
    /\ (outcome.op = "leave" /\ outcome.state # "MANIFEST") => pc = "error"
    /\ pc = "done" =>
          /\ EndsWithJumpAndLeave
          /\ outcome = [op |-> "leave", state |-> "MANIFEST"]
          /\ status = "MANIFEST"
          /\ err = NoError

\* the jump succeeded after two sectors were flashed
C12_Witness ==
    /\ pc = "done"
    /\ Len(sectors) >= 2
    /\ status = "MANIFEST"

(***************************************************************************)
(* C13                                                                     *)
(***************************************************************************)

\* an erase, a set-address of flash or a write-block has ended in another state
\* than DOWNLOAD_IDLE
FlashingFailed ==
    /\ outcome.op \in {"erase", "set_address", "write"}
    /\ outcome.state # "DOWNLOAD_IDLE"

\* the requests issued when the run ended at sector idx: in erase one selection
\* and one erase per sector up to idx and nothing of flash; in flash every
\* sector erased and one set-address per sector up to idx; never the jump
StoppedAtSector ==
    /\ CountOp("leave", Len(trace)) = 0
    /\ \A n \in 1..Len(trace) : trace[n] # Request("set_address", APP_ADDRESS, <<>>)
    /\ IF outcome.op = "erase"
       THEN /\ phase = "erase"
            /\ CountOp("erase", Len(trace)) = idx
            /\ CountOp("set_alternate", Len(trace)) = idx
            /\ CountOp("set_address", Len(trace)) = 0
            /\ CountOp("write", Len(trace)) = 0
       ELSE /\ phase = "flash"
            /\ CountOp("erase", Len(trace)) = Len(sectors)
            /\ CountOp("set_address", Len(trace)) = idx
            /\ CountOp("set_alternate", Len(trace)) = Len(sectors) + idx

\* C13: once an erase, set-address or write-block has ended in another state
\* than DOWNLOAD_IDLE the program has ended with a RuntimeError, the failed
\* request is the last one of the trace, no later sector has been erased or
\* written, leave has not been issued, and no step adds a request.
C13_AbortOnFirstFailure ==
    /\ [](FlashingFailed =>
            /\ pc = "error"
            /\ err = RuntimeError(outcome.state)
            /\ LastRequest.op = outcome.op
            /\ StoppedAtSector)
    /\ [][FlashingFailed => trace' = trace]_vars

\* the erase of the first of several sectors ended in a state that is neither
\* DOWNLOAD_IDLE nor ERROR
C13_Witness ==
    /\ FlashingFailed
    /\ outcome = [op |-> "erase", state |-> "OTHER"]
    /\ idx = 1
    /\ Len(sectors) >= 2

(***************************************************************************)
(* C14                                                                     *)
(***************************************************************************)

NameFields(name) == Split(name, "/")

\* the sector specs of a descriptor of three fields
LayoutSpecs(name) == Split(NameFields(name)[3], ",")

SpecParts(g) == Split(DropLast2(g), "*")

\* the descriptor has not three fields, or its address is no integer literal
HeaderMalformed(name) ==
    \/ Len(NameFields(name)) # 3
    \/ ~PyIntBase0(NameFields(name)[2]).ok

\* the part before the last two characters is not two integers joined by '*',
\* or the unit character is none of blank, K and M
SpecMalformed(g) ==
    \/ Len(SpecParts(g)) # 2
    \/ \E k \in 1..2 : ~PyInt(SpecParts(g)[k]).ok
    \/ Upper(g[Len(g) - 1]) \notin {" ", "K", "M"}

\* a well-formed sector spec whose repeat count or size is zero or less
SpecNonPositive(g) ==
    /\ ~SpecMalformed(g)
    /\ \E k \in 1..2 : PyInt(SpecParts(g)[k]).val <= 0

Unparsable(name) ==
    \/ HeaderMalformed(name)
    \/ \E k \in 1..Len(LayoutSpecs(name)) : SpecMalformed(LayoutSpecs(name)[k])

\* what the claim counts as malformed: also a negative address and a repeat
\* count or size of zero or less
ClaimedMalformed(name) ==
    \/ Unparsable(name)
    \/ PyIntBase0(NameFields(name)[2]).val < 0
    \/ \E k \in 1..Len(LayoutSpecs(name)) : SpecNonPositive(LayoutSpecs(name)[k])

\* no dictionary has been yielded for the alternate at position i
NothingYieldedFor(i) ==
    \A k \in 1..Len(yielded) : yielded[k].alt # alternates[i].alt

\* C14 as stated: a descriptor that has not three fields, has a malformed
\* sector spec (a repeat count or size of zero or less included) or an address
\* that is no unsigned integer (a negative one included) is never parsed to its
\* end, and no sector is yielded for it.
C14_AsStated ==
    \A i \in 1..Len(alternates) :
        ClaimedMalformed(alternates[i].name) => (lsIdx <= i /\ NothingYieldedFor(i))

\* C14 amended: planning raises exactly at a descriptor that has not three
\* fields, whose address int(s, 0) refuses, or one of whose sector specs is not
\* two integers joined by '*' with a unit of blank, K or M: it raises a
\* ValueError, or for the unit a KeyError, no list of sectors is produced, and
\* nothing has been yielded for the descriptor when its fields, its address or
\* its first sector spec are at fault.  A plan is produced only when no
\* descriptor is of that kind; zero and negative repeat counts, sizes and
\* addresses are parsed.
C14_ParseFailures ==
    /\ pc = "error" =>
          LET name == alternates[lsIdx].name
          IN  /\ Unparsable(name)
              /\ err.kind \in {"ValueError", "KeyError"}
              /\ err.kind = "KeyError" => ~HeaderMalformed(name)
              /\ sectors = <<>>
              /\ (HeaderMalformed(name) \/ SpecMalformed(LayoutSpecs(name)[1])) =>
                    NothingYieldedFor(lsIdx)
    /\ Planned => \A i \in 1..Len(alternates) : ~Unparsable(alternates[i].name)

\* planning has raised at the second sector spec of a layout after a sector of
\* its first spec was yielded
C14_Witness ==
    /\ pc = "error"
    /\ Unparsable(alternates[lsIdx].name)
    /\ ~HeaderMalformed(alternates[lsIdx].name)
    /\ ~NothingYieldedFor(lsIdx)

(***************************************************************************)
(* C15                                                                     *)
(***************************************************************************)

\* the multiplier the claim gives for a unit character
UnitMultiplier(c) ==
    CASE c \in {"K", "k"} -> 1024
      [] c \in {"M", "m"} -> 1024 * 1024
      [] c = " " -> 1

\* the repeat count, the size and the unit character written in a sector spec
WrittenRepeat(g) == PyInt(SpecParts(g)[1]).val
WrittenSize(g) == PyInt(SpecParts(g)[2]).val
WrittenUnit(g) == g[Len(g) - 1]

\* a step of load_sectors that walks the sector spec at the head of lsGroups
WalksGroup == pc = "load_group" /\ pc' # "error"

\* the step visits n sectors, each of the written size times the multiplier of
\* the written unit, one after the other from the cursor
VisitsSectors(n) ==
    LET g == Head(lsGroups)
        bytes == WrittenSize(g) * UnitMultiplier(WrittenUnit(g))
    IN  /\ Len(expanded') = Len(expanded) + n
        /\ \A k \in 1..n :
              /\ expanded'[Len(expanded) + k].size = bytes
              /\ expanded'[Len(expanded) + k].addr = lsAddr + (k - 1) * bytes

\* the layout of scenario 1 expands to 4 sectors of 16384 bytes and one of 65536
Scenario1Expansion ==
    /\ Len(expanded) = 5
    /\ \A i \in 1..4 : expanded[i].size = 16384
    /\ expanded[5].size = 65536

\* C15 as stated: walking a sector spec visits exactly repeatCount sectors, each
\* of size * multiplier bytes; '04*016Kg' expands to 4 sectors of 16384 bytes.
C15_AsStated ==
    /\ []((IsScenario1 /\ Planned) => Scenario1Expansion)
    /\ [][WalksGroup => VisitsSectors(WrittenRepeat(Head(lsGroups)))]_vars

\* C15 amended: walking a sector spec visits exactly repeatCount sectors, none
\* when repeatCount is negative, each of size * multiplier bytes; '04*016Kg'
\* expands to 4 sectors of 16384 bytes.
C15_Expansion ==
    /\ []((IsScenario1 /\ Planned) => Scenario1Expansion)
    /\ [][WalksGroup => VisitsSectors(Max(WrittenRepeat(Head(lsGroups)), 0))]_vars

\* a layout with a sector of unit M has been expanded: the sector after it
\* starts at 0x100000
C15_Witness ==
    /\ Planned
    /\ alternates = <<Alternate(DescMega, 0)>>
    /\ Len(expanded) = 2
    /\ expanded[1].size = 1048576
    /\ expanded[2].addr = 1048576
    /\ IsTouched(expanded[2])

(***************************************************************************)
(* C16                                                                     *)
(***************************************************************************)

\* the requests of device discovery, issued before planning
DiscoveryOps == {"find", "enter_dfu_mode"}

\* a request of erase, flash or the jump has been issued
DeviceTouched == \E n \in 1..Len(trace) : trace[n].op \notin DiscoveryOps

\* load_sectors has walked every alternate
PlanningComplete == lsIdx > Len(alternates)

\* C16: once a selection, erase, set-address, write-block or leave request has
\* been issued, load_sectors has walked every alternate without raising and the
\* list of sectors holds all it yielded; when planning has raised, whatever it
\* yielded before, the trace holds no request other than those of discovery.
C16_PlanBeforeDevice ==
    /\ DeviceTouched =>
          /\ PlanningComplete
          /\ sectors = yielded
          /\ Len(sectors) = Len(PlannedSectors)
    /\ (pc = "error" /\ ~PlanningComplete) => ~DeviceTouched

\* planning raised at the second alternate after sectors of the first were
\* yielded
C16_Witness ==
    /\ pc = "error"
    /\ lsIdx = 2
    /\ yielded # <<>>
    /\ err.kind = "ValueError"
    /\ ~DeviceTouched

(***************************************************************************)
(* C17                                                                     *)
(***************************************************************************)

IsErase(req) == req.op = "erase"
IsSetAddress(req) == req.op = "set_address"

Erases == SelectSeq(trace, IsErase)
SetAddresses == SelectSeq(trace, IsSetAddress)

\* the position of the first request of this op in the trace from n on,
\* Len(trace) + 1 if there is none
RECURSIVE FirstOf(_, _)
FirstOf(op, n) ==
    IF n > Len(trace) THEN n ELSE IF trace[n].op = op THEN n ELSE FirstOf(op, n + 1)

\* the requests are for the first Len(reqs) planned sectors, in the plan's order
FollowsPlan(reqs) ==
    /\ Len(reqs) <= Len(sectors)
    /\ \A k \in 1..Len(reqs) : reqs[k].arg = sectors[k].addr

\* the blocks of the first n planned sectors
RECURSIVE BlocksOfPlan(_)
BlocksOfPlan(n) ==
    IF n <= 0 THEN 0 ELSE BlocksOfPlan(n - 1) + BlockCount(sectors[n].data)

\* every planned sector has been erased, in the plan's order, before the first
\* set-address and the first write
AllErasedFirst ==
    /\ Len(Erases) = Len(sectors)
    /\ FollowsPlan(Erases)
    /\ LastOf("erase", Len(trace)) < FirstOf("set_address", 1)
    /\ LastOf("erase", Len(trace)) < FirstOf("write", 1)

\* every block of every planned sector has been written, sector by sector in
\* the plan's order
AllWritten ==
    /\ Len(SetAddresses) >= Len(sectors)
    /\ FollowsPlan(SubSeq(SetAddresses, 1, Len(sectors)))
    /\ CountOp("write", Len(trace)) = BlocksOfPlan(Len(sectors))

\* the set-address of the jump has been issued
JumpBegun == Len(SetAddresses) > Len(sectors)

\* C17: while erase runs no set-address, write or leave has been issued and the
\* erases follow the plan, each ended in DOWNLOAD_IDLE before the loop goes on;
\* flash runs only after every planned sector was erased, and its set-address
\* requests follow the plan in the same order; the jump begins only after every
\* block of every planned sector was written and its wait ended in
\* DOWNLOAD_IDLE, and leave comes after the last write.
C17_PhaseOrder ==
    /\ phase = "erase" =>
          /\ FollowsPlan(Erases)
          /\ Len(Erases) \in {idx - 1, idx}
          /\ Len(SetAddresses) = 0
          /\ CountOp("write", Len(trace)) = 0
          /\ CountOp("leave", Len(trace)) = 0
    /\ (phase = "erase" /\ pc = "erase_loop" /\ idx > 1) => EndedIdle("erase")
    /\ (Len(SetAddresses) > 0 \/ CountOp("write", Len(trace)) > 0) =>
          /\ phase = "flash"
          /\ AllErasedFirst
    /\ (phase = "flash" /\ ~JumpBegun) =>
          /\ AllErasedFirst
          /\ FollowsPlan(SetAddresses)
          /\ CountOp("leave", Len(trace)) = 0
          /\ CountOp("write", Len(trace)) <= BlocksOfPlan(Len(SetAddresses))
          /\ CountOp("write", Len(trace)) >= BlocksOfPlan(Len(SetAddresses) - 1)
    /\ pc = "jump_addr" => (AllWritten /\ (sectors # <<>> => EndedIdle("write")))
    /\ JumpBegun =>
          /\ AllErasedFirst
          /\ AllWritten
          /\ Len(SetAddresses) = Len(sectors) + 1
          /\ LastOf("write", Len(trace)) < LastOf("set_address", Len(trace))
    /\ CountOp("leave", Len(trace)) > 0 =>
          /\ JumpBegun
          /\ LastOf("write", Len(trace)) < LastOf("leave", Len(trace))

\* leave has been issued after three sectors of two alternates were erased and
\* then written
C17_Witness ==
    /\ pc = "jump_leavewait"
    /\ Len(sectors) >= 3
    /\ \E k \in 1..Len(sectors) : sectors[k].alt # sectors[1].alt
    /\ CountOp("erase", Len(trace)) = Len(sectors)
    /\ CountOp("write", Len(trace)) = Len(sectors)

(***************************************************************************)
(* C18                                                                     *)
(***************************************************************************)

\* the alternate of the last selection before position n of the trace
SelectedAt(n) == trace[LastSelect(n)].arg

\* the planned sector the request at position n is for: the k-th erase is for
\* sector k, a set-address of flash and the writes after it for the sector of
\* that set-address
SectorOfRequest(n) ==
    IF trace[n].op = "erase" THEN CountOp("erase", n) ELSE CountOp("set_address", n)

\* the request at position n is an erase, a set-address of flash or a write
ForPlannedSector(n) ==
    /\ trace[n].op \in {"erase", "set_address", "write"}
    /\ SectorOfRequest(n) <= Len(sectors)

\* C18: an erase, set-address or write request issued for a planned sector
\* comes after a selection, and the last selection before it chose that
\* sector's alternate (stated of the last request of the trace: every request
\* is the last one in the state that issued it); where such a request is about
\* to be issued or is waited for, the alternate selected on the device is that
\* of the current sector.
C18_AlternateSelected ==
    /\ (trace # <<>> /\ ForPlannedSector(Len(trace))) =>
          /\ LastSelect(Len(trace)) > 0
          /\ SelectedAt(Len(trace)) = sectors[SectorOfRequest(Len(trace))].alt
    /\ pc \in {"erase_req", "erase_wait", "flash_addr", "flash_addrwait",
               "flash_write", "flash_writewait"} =>
          /\ devAlt = sectors[idx].alt
          /\ SelectedAt(Len(trace)) = sectors[idx].alt

\* a block of a sector is being written in a plan of two alternates, after
\* sectors of the other alternate were erased and written
C18_Witness ==
    /\ pc = "flash_writewait"
    /\ idx > 1
    /\ sectors[idx].alt # sectors[1].alt
    /\ LastRequest.op = "write"
    /\ SelectedAt(Len(trace)) = sectors[idx].alt

(***************************************************************************)
(* C19                                                                     *)
(***************************************************************************)

FindRequest == Request("find", 0, <<>>)

\* the trace begins with a scan, the enter-DFU command and a second scan, and
\* the command raised nothing or a USBError of errno 32
RetriedOnce ==
    /\ Len(trace) >= 3
    /\ trace[1] = FindRequest
    /\ trace[2].op = "enter_dfu_mode"
    /\ trace[2].arg \in {0, 32}
    /\ trace[3] = FindRequest

\* C19: the run scans at most twice and commands enter-DFU at most once, only
\* after a first scan that found no device; the second scan follows the
\* command only when it raised nothing or a USBError of errno 32, any other
\* errno ends the run with that USBError and the command as the last request;
\* when the second scan finds no device the run ends with the device-not-found
\* ValueError and the trace holds the two scans and the command only; requests
\* of erase, flash and the jump come only after a scan that found a device.
C19_DiscoveryRetry ==
    /\ CountOp("find", Len(trace)) <= 2
    /\ CountOp("enter_dfu_mode", Len(trace)) <= 1
    /\ trace # <<>> => trace[1] = FindRequest
    /\ CountOp("enter_dfu_mode", Len(trace)) = 1 => trace[2].op = "enter_dfu_mode"
    /\ CountOp("find", Len(trace)) = 2 => RetriedOnce
    /\ pc = "rescan" => (Len(trace) = 2 /\ trace[2].arg \in {0, 32})
    /\ err.kind = "USBError" =>
          /\ pc = "error"
          /\ Len(trace) = 2
          /\ trace[2].op = "enter_dfu_mode"
          /\ trace[2].arg \notin {0, 32}
    /\ (Len(trace) >= 2 /\ trace[2].op = "enter_dfu_mode" /\ trace[2].arg \notin {0, 32}) =>
          /\ pc = "error"
          /\ err.kind = "USBError"
    /\ err = DeviceNotFound =>
          /\ pc = "error"
          /\ RetriedOnce
          /\ Len(trace) = 3
    /\ DeviceTouched => (Len(trace) >= 2 /\ trace[2].op = "enter_dfu_mode" => RetriedOnce)

\* the enter-DFU command raised a USBError of errno 32, the second scan was
\* made, and it found no device
C19_Witness ==
    /\ err = DeviceNotFound
    /\ trace[2] = Request("enter_dfu_mode", 32, <<>>)
    /\ Len(trace) = 3

====
